---- MODULE Spec2Model ----
(***************************************************************************)
(* The chunk upload pipeline of sn_cli (subcommands/files/mod.rs):         *)
(* upload_files, handle_chunk_batch, progress_uploading_chunks,            *)
(* upload_chunks_in_parallel and upload_chunk, as one state machine.       *)
(* The driver (upload_files) is a single sequential process whose position *)
(* is pc; the Upload Workers are tokio tasks that finish on their own.     *)
(* Chunk addresses are the numbers 1..n.  The Payment Gateway, the         *)
(* Verifier, the network put and the file system are external: each of     *)
(* their answers is a nondeterministic choice.                             *)
(***************************************************************************)
EXTENDS Integers, Sequences, FiniteSets, TLC

\* Bounds of the model.
MaxChunks == 3
MaxBatch == 2
MaxRetries == 1
\* Chunks of the longest input of SpecLong, whose runs have up to this many
\* batches in a pass.
MaxLongChunks == 5
\* Number of times upload is run on the same path.
MaxRuns == 2
\* Largest number of chunks of a path that is uploaded more than once.
MaxRerunChunks == 2
\* Largest number of chunks of a path in the runs checked for termination.
MaxFairChunks == 2
\* Largest number of lines of a manifest read by download_files.
MaxLines == 3

\* mod.rs:246
max_sequential_payment_fails == 3

Chunks == 1..(CHOOSE n \in {MaxChunks, MaxLongChunks, MaxRerunChunks, MaxFairChunks} :
                 \A m \in {MaxChunks, MaxLongChunks, MaxRerunChunks, MaxFairChunks} : m <= n)

VARIABLES
    batch_size,                 \* --batch-size
    max_retries,                \* --max-retries
    balance_zero,               \* file_api.wallet()?.balance().is_zero()
    known,                      \* the chunks the path is made of (Chunk Manager)
    completed,                  \* the chunks the Chunk Manager holds as Completed
    chunked,                    \* chunk_manager.chunk_path has run
    marked,                     \* history: addresses passed to mark_completed in this run
    pc,                         \* position of upload_files
    pass,                       \* "first" (loop at 249) or "retry" (loop at 286)
    chunks_to_upload,           \* the first pass's list
    failed_chunks,              \* the retry pass's list
    batch_idx,                  \* index of the current batch of the pass
    retry_count,
    sequential_payment_fails,
    result,                     \* "running", "Ok" or the error the run ended with
    verify_outcome,             \* history: what verify_uploaded_chunks answered
    verify_failed,              \* history: the failed subset it returned
    workers,                    \* spawned tasks whose handle is still held: id -> [addr, st]
    uploading_chunks,           \* the in-flight window: ids of the handles pushed
    upload_tasks,               \* handles returned by upload_chunks_in_parallel, not yet pushed
    next_id,                    \* number of tasks spawned so far
    payLog,                     \* history: the answer of every pay_for_chunks call, in order
    paidOK,                     \* history: per address, the successful payment calls holding it
    dispatched,                 \* history: per address, the workers spawned for it
    pass_paid,                  \* history: addresses whose batch was paid in this pass
    pass_failed,                \* history: addresses whose batch payment failed in this pass
    pass_spawned,               \* history: addresses a worker was spawned for in this pass
    manifest,                   \* the lines of <root>/uploaded_files
    appended,                   \* history: number of lines this run appended
    flushed,                    \* file.flush() returned Ok
    run,                        \* which run of upload on this path this is
    manifest0,                  \* history: the manifest when this run started
    dl_pc,                      \* where download_files is: "idle", "open", "read", "download", "done"
    line_idx,                   \* download_files: the manifest line the reader is at
    uploaded_files,             \* download_files: the BTreeSet of (xor_name, file_name)
    downloaded,                 \* history: the (xor_name, file_name) of each download_file call
    dl_result,                  \* what download_files returned, or that it panicked
    total_existing_chunks,      \* 229: chunks the payment calls reported skipped
    progress_skipped            \* what the scheduler has added to the progress bar's
                                \* position (434); the workers add their part at 520

vars == << batch_size, max_retries, balance_zero, known, completed, chunked, marked,
           pc, pass, chunks_to_upload, failed_chunks, batch_idx, retry_count,
           sequential_payment_fails, result, verify_outcome, verify_failed,
           workers, uploading_chunks, upload_tasks, next_id,
           payLog, paidOK, dispatched, pass_paid, pass_failed, pass_spawned,
           manifest, appended, flushed, run, manifest0,
           dl_pc, line_idx, uploaded_files, downloaded, dl_result,
           total_existing_chunks, progress_skipped >>

paramVars == << batch_size, max_retries, balance_zero, known >>
poolVars  == << workers, uploading_chunks, upload_tasks, next_id >>
payVars   == << payLog, paidOK, dispatched, pass_paid, pass_failed, pass_spawned >>
dlVars    == << dl_pc, line_idx, uploaded_files, downloaded, dl_result >>
fileVars  == << manifest, appended, flushed, run, manifest0 >>
barVars   == << total_existing_chunks, progress_skipped >>

----------------------------------------------------------------------------
\* Helpers

Range(s) == { s[i] : i \in DOMAIN s }

Min(a, b) == IF a <= b THEN a ELSE b

RECURSIVE SortedSeq(_)
SortedSeq(S) ==
    IF S = {} THEN << >>
    ELSE LET m == CHOOSE x \in S : \A y \in S : x <= y
         IN  << m >> \o SortedSeq(S \ {m})

\* slice.chunks(batch_size): the k-th batch and the number of batches
Batch_overlapping(seq, k, bs) ==
    SubSeq(seq, IF k = 1 THEN 1 ELSE (k - 1) * bs, Min(k * bs, Len(seq)))

Batch(seq, k, bs) == SubSeq(seq, (k - 1) * bs + 1, Min(k * bs, Len(seq)))

NumBatches(seq, bs) == (Len(seq) + bs - 1) \div bs

----------------------------------------------------------------------------
\* Chunk Manager (chunk_manager.rs is not part of the sources at hand; these
\* follow section 4.1 of the specification).

get_chunks(k, c) == SortedSeq(k \ c)

is_chunks_empty(k, c) == k \ c = {}

already_put_chunks(k) == SortedSeq(k)

\* Sections 4.5 and the glossary: the resume-time verification demotes the
\* chunks of the path from Completed back to Pending; upload_files then marks
\* the ones that verified (186-191), which leaves the failed subset Pending.
demote(c, S) == c \ S

mark_completed(c, S) == c \cup S

\* A file is made of the chunks of one parity; its root address is its
\* smallest chunk, so file f has root address f.
FileOf(c) == IF c % 2 = 1 THEN 1 ELSE 2

FileChunks(k, f) == { c \in k : FileOf(c) = f }

verified_files(k, c) ==
    SortedSeq({ f \in { FileOf(x) : x \in k } : FileChunks(k, f) \subseteq c })

\* File 1 has a UTF-8 name, file 2 has not (OsStr::to_str gives None).
FileNameIsUtf8(f) == f = 1


\* Text is a sequence of pieces.  The piece ": " is the only text that holds
\* the separator the manifest reader splits on; a piece "01{32}" stands for
\* the hex digits of 32 bytes 0x01.
Sep == ": "

\* {addr:x} at 322 / 326: the 64 lower-case hex digits of a root address
LowerHex(a) == IF a = 1 THEN "01{32}" ELSE "02{32}"

\* {file_name} at 322 and {file_name:?} at 326
FileNameText(f) == IF f = 1 THEN << "a.txt" >> ELSE << "b.txt" >>

FileNameDebug(f) == IF f = 1 THEN << "\"a.txt\"" >> ELSE << "\"b\\xFF.txt\"" >>

\* writeln!(file, "{addr:x}: {file_name}") at 322 (and 326 with
\* {file_name:?}): the address in hex, ": ", and the name's text as it is.
FormatLine(addr, name_text) == << LowerHex(addr), Sep >> \o name_text

\* What the manifest writer prints for a verified file (322 / 326): the root
\* address in hex, ": ", and the name, or the name's debug form when it is
\* not UTF-8.
ManifestLine(f) ==
    FormatLine(f, IF FileNameIsUtf8(f) THEN FileNameText(f) ELSE FileNameDebug(f))

ManifestLines_skipNonUtf8(files) ==
    LET utf == SelectSeq(files, FileNameIsUtf8)
    IN  [ i \in 1..Len(utf) |-> ManifestLine(utf[i]) ]

ManifestLines(files) == [ i \in 1..Len(files) |-> ManifestLine(files[i]) ]

----------------------------------------------------------------------------
\* Decisions of the driver

\* 374: while drain_all || params.uploading_chunks.len() >= params.batch_size
DrainCond_offByOne(drain_all, len, bs) == drain_all \/ len > bs

DrainCond(drain_all, len, bs) == drain_all \/ len >= bs

\* The drain_all argument of progress_uploading_chunks: true at 282 and 301,
\* false at 405 and 457.
DrainAllArg_false(where) == FALSE

DrainAllArg(where) == where = "drain_all"

\* 286: while !failed_chunks.is_empty() && retry_count < max_retries
RetryCond_inclusive(failed, rc, mr) == failed # << >> /\ rc <= mr

RetryCond(failed, rc, mr) == failed # << >> /\ rc < mr

\* 304-306: the retry loop is left for progress_bar.finish_and_clear() and
\* the manifest whatever is left in failed_chunks; there is no bail! for it.
ExhaustedIsFatal_bail(failed, rc, mr) == failed # << >> /\ rc >= mr

ExhaustedIsFatal(failed, rc, mr) == FALSE

\* 285, 303: failed_chunks = upload_params.chunk_manager.get_chunks()
RetryChunks_original(pending, original) == original

RetryChunks(pending, original) == pending

\* 168: if file_api.wallet()?.balance().is_zero() { bail!(..) }
WalletIsEmpty_unchecked(zero) == FALSE

WalletIsEmpty(zero) == zero

\* 211: chunks_to_upload = failed_chunks
ResumeChunks_all(chunks, failed) == chunks

ResumeChunks(chunks, failed) == failed

\* 168, 172, 251, 256-274, 298, 377, 418-425: bail! and `?` return from
\* upload_files at once; the manifest is opened further down, at 313.
AbortLines_written(files) == ManifestLines(files)

AbortLines(files) == << >>

\* 195-207: the early return prints the verified files and writes nothing
\* to the manifest.
EarlyReturnLines_written(files) == ManifestLines(files)

EarlyReturnLines(files) == << >>

\* 262: only ClientError::CouldNotVerifyTransfer takes the `continue` arm
IsSoftPaymentError_lenient(kind) == kind \in {"CouldNotVerifyTransfer", "Other"}

IsSoftPaymentError(kind) == kind = "CouldNotVerifyTransfer"

\* 377: `result?` returns only on a JoinError; the task's own Err is logged (385-387)
JoinResultIsFatal_anyErr(st) == st \in {"panic", "err"}

JoinResultIsFatal(st) == st = "panic"

\* 379 with 513 and 521: upload_chunk returns Ok(xorname) after a put and
\* also when the chunk's file could not be read
WorkerReturnsOk_strict(st) == st = "ok"

WorkerReturnsOk(st) == st \in {"ok", "missing"}

\* 375, 389-392: next() gives None on an empty window and the loop breaks
StreamEnded_never(window) == FALSE

StreamEnded(window) == window = {}

\* 194: if failed_chunks.is_empty() { ... return Ok(()) }
VerifyEarlyReturn_never(failed) == FALSE

VerifyEarlyReturn(failed) == failed = {}

\* 428-430: chunks_to_upload.retain(|(name, _)| !skipped_chunks.contains(name))
Retain_keepAll(batch, skipped) == batch

Retain(batch, skipped) == SelectSeq(batch, LAMBDA a : a \notin skipped)

\* 425: Err(error) => return Err(eyre!(error)), which is before 440, so no
\* task exists for a batch whose payment failed.
SpawnedOnPayError_all(batch) == batch

SpawnedOnPayError(batch) == << >>

\* What pay_for_chunks can answer for a batch (external).  "ok" carries the
\* skipped subset; "overflow" is an Ok answer whose cost makes checked_add at
\* 417 or 421 fail (the costs come from the network, so whether the sum
\* overflows is not the program's choice).
PayOutcomes(addrs) ==
    [ kind : {"ok"}, skipped : SUBSET addrs ]
    \cup [ kind : {"overflow", "CouldNotVerifyTransfer", "NotEnoughBalance", "Other"},
           skipped : {{}} ]

\* What a running upload_chunk task can end with: Ok after a put ("ok"), Ok
\* without a put because the file could not be read ("missing", 509-513),
\* Err from the put ("err"), or the task panicked or was cancelled, which
\* the JoinHandle reports as a JoinError ("panic").
WorkerOutcomes == {"ok", "missing", "err", "panic"}

CurChunks == IF pass = "first" THEN chunks_to_upload ELSE failed_chunks

CurBatch == Batch(CurChunks, batch_idx, batch_size)

Pending == known \ completed

Running == { id \in DOMAIN workers : workers[id].st = "running" }

----------------------------------------------------------------------------
\* The state when upload_files is entered, for a path of at most maxN chunks
\* of which a prefix was completed by earlier runs.
InitWith(maxN) ==
    /\ batch_size \in 1..MaxBatch
    /\ max_retries \in 0..MaxRetries
    /\ balance_zero \in BOOLEAN
    /\ \E n \in 0..maxN :
         /\ known = 1..n
         /\ \E k \in 0..n : completed = 1..k
    /\ chunked = FALSE
    /\ marked = {}
    /\ pc = "start"
    /\ pass = "first"
    /\ chunks_to_upload = << >>
    /\ failed_chunks = << >>
    /\ batch_idx = 1
    /\ retry_count = 0
    /\ sequential_payment_fails = 0
    /\ result = "running"
    /\ verify_outcome = "not_run"
    /\ verify_failed = {}
    /\ workers = << >>
    /\ uploading_chunks = {}
    /\ upload_tasks = << >>
    /\ next_id = 0
    /\ payLog = << >>
    /\ paidOK = [ c \in Chunks |-> 0 ]
    /\ dispatched = [ c \in Chunks |-> 0 ]
    /\ pass_paid = {}
    /\ pass_failed = {}
    /\ pass_spawned = {}
    /\ manifest = ManifestLines(verified_files(known, completed))
    /\ appended = 0
    /\ flushed = FALSE
    /\ run = 1
    /\ manifest0 = manifest
    /\ dl_pc = "idle"
    /\ line_idx = 0
    /\ uploaded_files = {}
    /\ downloaded = << >>
    /\ dl_result = "none"
    /\ total_existing_chunks = 0
    /\ progress_skipped = 0

Init == InitWith(MaxChunks)

InitLong == InitWith(MaxLongChunks)

\* bail! or `?`: upload_files returns Err(kind)
Abort(kind) ==
    /\ pc' = "done"
    /\ result' = kind

\* The manifest after a step taken before the file is opened at 313: a
\* return from upload_files at such a place writes AbortLines.
ManifestAfter(newpc, files) ==
    manifest \o (IF newpc = "done" THEN AbortLines(files) ELSE << >>)

\* 165-214: wallet check, chunking, and the choice between the resume path
\* and the scheduler.
Start ==
    /\ pc = "start"
    /\ \/ /\ WalletIsEmpty(balance_zero)
          /\ Abort("WalletEmpty")
          /\ UNCHANGED << chunked, chunks_to_upload >>
       \/ /\ ~WalletIsEmpty(balance_zero)
          /\ Abort("ChunkPathError")                      \* chunk_path(..)? at 172
          /\ UNCHANGED << chunked, chunks_to_upload >>
       \/ /\ ~WalletIsEmpty(balance_zero)
          /\ chunked' = TRUE
          /\ UNCHANGED result
          /\ IF is_chunks_empty(known, completed)
             THEN pc' = "verify" /\ UNCHANGED chunks_to_upload
             ELSE /\ chunks_to_upload' = get_chunks(known, completed)
                  /\ pc' = "batch_loop"
    /\ UNCHANGED << paramVars, completed, marked, pass, failed_chunks, batch_idx,
                    retry_count, sequential_payment_fails, verify_outcome, verify_failed,
                    poolVars, payVars, dlVars, barVars >>
    /\ manifest' = ManifestAfter(pc', verified_files(known, completed'))
    /\ UNCHANGED << appended, flushed, run, manifest0 >>

\* 176-211: the resume path.
Verify ==
    /\ pc = "verify"
    /\ LET chunks == already_put_chunks(known) IN
       \/ /\ verify_outcome' = "error"                    \* verify_uploaded_chunks(..)? at 183
          /\ verify_failed' = {}
          /\ Abort("VerifyError")
          /\ UNCHANGED << completed, marked, chunks_to_upload, manifest >>
       \/ \E failed \in SUBSET Range(chunks) :
            /\ verify_outcome' = IF failed = {} THEN "empty" ELSE "failed"
            /\ verify_failed' = failed
            /\ completed' = mark_completed(demote(completed, Range(chunks)),
                                           Range(chunks) \ failed)
            /\ marked' = marked \cup (Range(chunks) \ failed)
            /\ IF VerifyEarlyReturn(failed)
               THEN /\ pc' = "done"
                    /\ result' = "Ok"
                    /\ manifest' = manifest \o
                           EarlyReturnLines(verified_files(known, completed'))
                    /\ UNCHANGED chunks_to_upload
               ELSE /\ chunks_to_upload' = SortedSeq(ResumeChunks(Range(chunks), failed))
                    /\ pc' = "batch_loop"
                    /\ UNCHANGED << result, manifest >>
    /\ UNCHANGED << paramVars, chunked, pass, failed_chunks, batch_idx, retry_count,
                    sequential_payment_fails, poolVars, payVars, appended, flushed,
                    run, manifest0, dlVars, barVars >>

\* 249-252 and 297: the head of the batch loop of either pass.
BatchLoop ==
    /\ pc = "batch_loop"
    /\ IF batch_idx > NumBatches(CurChunks, batch_size)
       THEN pc' = "drain_all" /\ UNCHANGED result         \* 282, 301
       ELSE IF pass = "first" /\ sequential_payment_fails >= max_sequential_payment_fails
            THEN Abort("TooManySequentialPaymentFails")   \* 250-252
            ELSE pc' = "hcb_drain" /\ UNCHANGED result    \* 405
    /\ UNCHANGED << paramVars, completed, chunked, marked, pass, chunks_to_upload,
                    failed_chunks, batch_idx, retry_count, sequential_payment_fails,
                    verify_outcome, verify_failed, poolVars, payVars, dlVars, barVars >>
    /\ manifest' = ManifestAfter(pc', verified_files(known, completed'))
    /\ UNCHANGED << appended, flushed, run, manifest0 >>

\* 373-395: one turn of progress_uploading_chunks, called at 405 ("hcb_drain"),
\* 457 ("push_drain") and 282 / 301 ("drain_all").  It either awaits one finished
\* handle of the window, or leaves the loop.
ProgressUploadingChunks ==
    /\ pc \in {"hcb_drain", "push_drain", "drain_all"}
    /\ IF DrainCond(DrainAllArg(pc), Cardinality(uploading_chunks), batch_size)
          /\ ~StreamEnded(uploading_chunks)
       THEN \E id \in uploading_chunks :
              /\ workers[id].st # "running"
              /\ uploading_chunks' = uploading_chunks \ {id}
              /\ workers' = [ i \in DOMAIN workers \ {id} |-> workers[i] ]
              /\ IF JoinResultIsFatal(workers[id].st)
                 THEN /\ Abort("JoinError")               \* result? at 377
                      /\ UNCHANGED << completed, marked >>
                 ELSE IF WorkerReturnsOk(workers[id].st)
                      THEN /\ completed' = mark_completed(completed, {workers[id].addr})
                           /\ marked' = marked \cup {workers[id].addr}
                           /\ UNCHANGED << pc, result >>
                      ELSE UNCHANGED << completed, marked, pc, result >>   \* 385-387
       ELSE /\ pc' = CASE pc = "hcb_drain"  -> "hcb_pay"
                       [] pc = "push_drain" -> "push"
                       [] pc = "drain_all"  -> "retry_check"
            /\ UNCHANGED << completed, marked, result, workers, uploading_chunks >>
    /\ UNCHANGED << paramVars, chunked, pass, chunks_to_upload, failed_chunks, batch_idx,
                    retry_count, sequential_payment_fails, verify_outcome, verify_failed,
                    upload_tasks, next_id, payVars, dlVars, barVars >>
    /\ manifest' = ManifestAfter(pc', verified_files(known, completed'))
    /\ UNCHANGED << appended, flushed, run, manifest0 >>

\* 408-446 and the caller's match at 255-278 / the `?` at 298: the answer of
\* pay_for_chunks arrives; on Ok the skipped chunks are marked and one task
\* per remaining chunk is spawned (upload_chunks_in_parallel, 470-495).
PayForChunks ==
    /\ pc = "hcb_pay"
    /\ \E out \in PayOutcomes(Range(CurBatch)) :
         LET addrs     == Range(CurBatch)
             to_upload == IF out.kind = "ok" THEN Retain(CurBatch, out.skipped)
                                             ELSE SpawnedOnPayError(CurBatch)
             n         == Len(to_upload)
         IN
         /\ payLog' = Append(payLog, [ pass |-> pass, kind |-> out.kind,
                                       skipped |-> out.skipped ])
         /\ paidOK' = [ c \in Chunks |->
                          IF c \in addrs /\ out.kind \in {"ok", "overflow"}
                          THEN paidOK[c] + 1 ELSE paidOK[c] ]
         /\ pass_paid' = IF out.kind \in {"ok", "overflow"}
                         THEN pass_paid \cup addrs ELSE pass_paid
         /\ pass_failed' = IF out.kind \in {"ok", "overflow"}
                           THEN pass_failed ELSE pass_failed \cup addrs
         \* upload_chunks_in_parallel: tokio::spawn for every chunk, at once
         /\ workers' = workers @@
                [ i \in (next_id + 1)..(next_id + n) |->
                    [ addr |-> to_upload[i - next_id], st |-> "running" ] ]
         /\ upload_tasks' = [ i \in 1..n |-> next_id + i ]
         /\ next_id' = next_id + n
         /\ dispatched' = [ c \in Chunks |->
                              IF c \in Range(to_upload)
                              THEN dispatched[c] + 1 ELSE dispatched[c] ]
         /\ pass_spawned' = pass_spawned \cup Range(to_upload)
         \* 433-434: reached only when the match at 408-426 gave the skipped set
         /\ total_existing_chunks' = total_existing_chunks +
                IF out.kind = "ok" THEN Cardinality(out.skipped) ELSE 0
         /\ progress_skipped' = progress_skipped +
                IF out.kind = "ok" THEN Cardinality(out.skipped) ELSE 0
         /\ CASE out.kind = "ok" ->
                   /\ completed' = mark_completed(completed, out.skipped)
                   /\ marked' = marked \cup out.skipped
                   /\ IF n = 0
                      THEN pc' = "batch_loop" /\ batch_idx' = batch_idx + 1
                      ELSE pc' = "push_drain" /\ UNCHANGED batch_idx
                   /\ UNCHANGED << result, sequential_payment_fails >>
              [] out.kind = "overflow" ->
                   \* ok_or_else(..)? at 418 / 422; not a ClientError, so the
                   \* downcast at 256 fails and its `?` returns the report
                   /\ Abort("CostOverflow")
                   /\ UNCHANGED << completed, marked, batch_idx, sequential_payment_fails >>
              [] IsSoftPaymentError(out.kind) /\ pass = "first" ->
                   /\ sequential_payment_fails' = sequential_payment_fails + 1   \* 269
                   /\ batch_idx' = batch_idx + 1                                 \* continue
                   /\ pc' = "batch_loop"
                   /\ UNCHANGED << completed, marked, result >>
              [] out.kind = "NotEnoughBalance" /\ pass = "first" ->
                   /\ Abort("NotEnoughBalance")                                  \* 260
                   /\ UNCHANGED << completed, marked, batch_idx, sequential_payment_fails >>
              [] out.kind = "Other" /\ pass = "first" ->
                   /\ Abort("FailedToUploadChunkBatch")                          \* 273
                   /\ UNCHANGED << completed, marked, batch_idx, sequential_payment_fails >>
              [] OTHER ->
                   /\ Abort(out.kind)                                            \* `?` at 298
                   /\ UNCHANGED << completed, marked, batch_idx, sequential_payment_fails >>
    /\ UNCHANGED << paramVars, chunked, pass, chunks_to_upload, failed_chunks,
                    retry_count, verify_outcome, verify_failed, uploading_chunks,
                    dlVars >>
    /\ manifest' = ManifestAfter(pc', verified_files(known, completed'))
    /\ UNCHANGED << appended, flushed, run, manifest0 >>

\* 459: params.uploading_chunks.push(task), after the drain at 457; after the
\* last task handle_chunk_batch returns Ok(()).
Push ==
    /\ pc = "push"
    /\ upload_tasks # << >>
    /\ uploading_chunks' = uploading_chunks \cup {Head(upload_tasks)}
    /\ upload_tasks' = Tail(upload_tasks)
    /\ IF Tail(upload_tasks) = << >>
       THEN pc' = "batch_loop" /\ batch_idx' = batch_idx + 1
       ELSE pc' = "push_drain" /\ UNCHANGED batch_idx
    /\ UNCHANGED << paramVars, completed, chunked, marked, pass, chunks_to_upload,
                    failed_chunks, retry_count, sequential_payment_fails, result,
                    verify_outcome, verify_failed, workers, next_id, payVars, fileVars, dlVars, barVars >>

\* 284-304: after the drain of a pass, read the Pending set and decide on a
\* retry pass.
RetryCheck ==
    /\ pc = "retry_check"
    /\ LET failed == RetryChunks(get_chunks(known, completed), chunks_to_upload) IN
       /\ failed_chunks' = failed
       /\ IF RetryCond(failed, retry_count, max_retries)
          THEN /\ retry_count' = retry_count + 1
               /\ pass' = "retry"
               /\ batch_idx' = 1
               /\ pass_paid' = {}
               /\ pass_failed' = {}
               /\ pass_spawned' = {}
               /\ pc' = "batch_loop"
               /\ UNCHANGED result
          ELSE /\ IF ExhaustedIsFatal(failed, retry_count, max_retries)
                  THEN Abort("RetriesExhausted")
                  ELSE pc' = "manifest" /\ UNCHANGED result
               /\ UNCHANGED << retry_count, pass, batch_idx, pass_paid, pass_failed,
                               pass_spawned >>
    /\ UNCHANGED << paramVars, completed, chunked, marked, chunks_to_upload,
                    sequential_payment_fails, verify_outcome, verify_failed, poolVars,
                    payLog, paidOK, dispatched, fileVars, dlVars, barVars >>

\* 312-346: open the manifest for appending, write one line per verified
\* file, flush.  Opening, any writeln and the flush can fail (`?`), which
\* leaves the lines written so far.
WriteManifest ==
    /\ pc = "manifest"
    /\ LET lines == ManifestLines(verified_files(known, completed)) IN
       \/ /\ manifest' = manifest \o lines
          /\ appended' = Len(lines)
          /\ flushed' = TRUE
          /\ pc' = "done"
          /\ result' = "Ok"
       \/ \E k \in 0..Len(lines) :
            /\ manifest' = manifest \o SubSeq(lines, 1, k)
            /\ appended' = k
            /\ flushed' = FALSE
            /\ Abort("ManifestIOError")
    /\ UNCHANGED << paramVars, completed, chunked, marked, pass, chunks_to_upload,
                    failed_chunks, batch_idx, retry_count, sequential_payment_fails,
                    verify_outcome, verify_failed, poolVars, payVars, run, manifest0, dlVars, barVars >>

\* 499-522: a spawned upload_chunk task ends, whether or not its handle has
\* been pushed into the window yet.
WorkerFinish ==
    /\ pc # "done"
    /\ \E id \in Running : \E o \in WorkerOutcomes :
         workers' = [ workers EXCEPT ![id].st = o ]
    /\ UNCHANGED << paramVars, completed, chunked, marked, pc, pass, chunks_to_upload,
                    failed_chunks, batch_idx, retry_count, sequential_payment_fails,
                    result, verify_outcome, verify_failed, uploading_chunks, upload_tasks, next_id,
                    payVars, fileVars, dlVars, barVars >>

\* files_cmds (82-105) is entered again for the same path and the same Chunk
\* Store after a run that returned Ok and left no chunk Pending: the Chunk
\* Manager and the manifest are as that run left them, everything else is
\* as at the entry of upload_files.
RunAgain ==
    /\ pc = "done"
    /\ result = "Ok"
    /\ known \ completed = {}
    /\ run < MaxRuns
    /\ run' = run + 1
    /\ manifest0' = manifest
    /\ balance_zero' \in BOOLEAN
    /\ chunked' = FALSE
    /\ marked' = {}
    /\ pc' = "start"
    /\ pass' = "first"
    /\ chunks_to_upload' = << >>
    /\ failed_chunks' = << >>
    /\ batch_idx' = 1
    /\ retry_count' = 0
    /\ sequential_payment_fails' = 0
    /\ result' = "running"
    /\ verify_outcome' = "not_run"
    /\ verify_failed' = {}
    /\ workers' = << >>
    /\ uploading_chunks' = {}
    /\ upload_tasks' = << >>
    /\ next_id' = 0
    /\ payLog' = << >>
    /\ paidOK' = [ c \in Chunks |-> 0 ]
    /\ dispatched' = [ c \in Chunks |-> 0 ]
    /\ pass_paid' = {}
    /\ pass_failed' = {}
    /\ pass_spawned' = {}
    /\ appended' = 0
    /\ flushed' = FALSE
    /\ total_existing_chunks' = 0
    /\ progress_skipped' = 0
    /\ UNCHANGED << batch_size, max_retries, known, completed, manifest, dlVars >>

Next ==
    \/ Start
    \/ Verify
    \/ BatchLoop
    \/ ProgressUploadingChunks
    \/ PayForChunks
    \/ Push
    \/ RetryCheck
    \/ WriteManifest
    \/ WorkerFinish

Spec == Init /\ [][Next]_vars

\* The same program on longer inputs.
SpecLong == InitLong /\ [][Next]_vars

\* upload_files under a scheduler that keeps running the task of upload_files
\* while it can take a step, a Payment Gateway whose every call returns, and
\* workers that each return.
InitFair == InitWith(MaxFairChunks)

SpecFair ==
    /\ InitFair
    /\ [][Next]_vars
    /\ WF_vars(Start \/ Verify \/ BatchLoop \/ ProgressUploadingChunks
                  \/ Push \/ RetryCheck \/ WriteManifest)
    /\ WF_vars(PayForChunks)
    /\ WF_vars(WorkerFinish)

\* Runs of upload on one path, one after the other.
InitRerun == InitWith(MaxRerunChunks)

NextRerun ==
    \/ Start
    \/ Verify
    \/ BatchLoop
    \/ ProgressUploadingChunks
    \/ PayForChunks
    \/ Push
    \/ RetryCheck
    \/ WriteManifest
    \/ WorkerFinish
    \/ RunAgain

SpecRerun == InitRerun /\ [][NextRerun]_vars

-----------------------------------------------------------------------------
\* download_files (524-571): download every file the manifest names

\* 540: line.split(": ").collect()
RECURSIVE split(_)
split(text) ==
    IF \A i \in 1..Len(text) : text[i] # Sep
    THEN << text >>
    ELSE LET i == CHOOSE j \in 1..Len(text) :
                      text[j] = Sep /\ \A k \in 1..(j - 1) : text[k] # Sep
         IN  << SubSeq(text, 1, i - 1) >> \o split(SubSeq(text, i + 1, Len(text)))

\* 546: hex::decode gives the bytes of a text of an even number of hex
\* digits (none for the empty text) and an error for any other text.
HexTable ==
    { [ text |-> << LowerHex(1) >>, len |-> 32, addr |-> 1 ],
      [ text |-> << LowerHex(2) >>, len |-> 32, addr |-> 2 ],
      [ text |-> << "01{31}" >>,    len |-> 31, addr |-> 0 ],
      [ text |-> << >>,             len |-> 0,  addr |-> 0 ] }

hex_decode(text) ==
    IF \E h \in HexTable : h.text = text
    THEN LET h == CHOOSE x \in HexTable : x.text = text
         IN  [ ok |-> TRUE, len |-> h.len, addr |-> h.addr ]
    ELSE [ ok |-> FALSE, len |-> 0, addr |-> 0 ]

\* 540-555: what the reader makes of one line
ParseLine(line) ==
    LET parts == split(line) IN
    IF Len(parts) # 2
    THEN [ kind |-> "malformed", addr |-> 0, name |-> << >> ]          \* 554
    ELSE LET d == hex_decode(parts[1]) IN
         IF ~d.ok
         THEN [ kind |-> "decode_error", addr |-> 0, name |-> << >> ]  \* `?` at 546
         ELSE IF d.len # 32
              THEN [ kind |-> "panic", addr |-> 0, name |-> << >> ]    \* expect at 547-549
              ELSE [ kind |-> "entry", addr |-> d.addr, name |-> parts[2] ]

\* 552: uploaded_files.insert((xor_name, file_name.to_string()))
insert_lastNameWins(set, addr, name) ==
    { e \in set : e[1] # addr } \cup { << addr, name >> }

insert(set, addr, name) == set \cup { << addr, name >> }

\* The lines a manifest is made of: the two lines the writer prints, a line
\* for the content of file 1 under another name, a line for a name that
\* holds ": ", a line with no ": ", and lines whose first part is not hex or
\* is the hex of 31 bytes.
LineChoices ==
    { ManifestLine(1),
      ManifestLine(2),
      << LowerHex(1), Sep, "b.txt" >>,
      << LowerHex(2), Sep, "a", Sep, "b.txt" >>,
      << "a.txt" >>,
      << "zz", Sep, "a.txt" >>,
      << "01{31}", Sep, "a.txt" >> }

\* download_files is entered with some manifest on disk, made of lines of
\* the given set; no upload is running.
InitDownloadOf(lines) ==
    /\ batch_size = 1
    /\ max_retries = 0
    /\ balance_zero = FALSE
    /\ known = {}
    /\ completed = {}
    /\ chunked = FALSE
    /\ marked = {}
    /\ pc = "done"
    /\ pass = "first"
    /\ chunks_to_upload = << >>
    /\ failed_chunks = << >>
    /\ batch_idx = 1
    /\ retry_count = 0
    /\ sequential_payment_fails = 0
    /\ result = "Ok"
    /\ verify_outcome = "not_run"
    /\ verify_failed = {}
    /\ workers = << >>
    /\ uploading_chunks = {}
    /\ upload_tasks = << >>
    /\ next_id = 0
    /\ payLog = << >>
    /\ paidOK = [ c \in Chunks |-> 0 ]
    /\ dispatched = [ c \in Chunks |-> 0 ]
    /\ pass_paid = {}
    /\ pass_failed = {}
    /\ pass_spawned = {}
    /\ \E n \in 0..MaxLines : manifest \in [ 1..n -> lines ]
    /\ appended = 0
    /\ flushed = FALSE
    /\ run = 1
    /\ manifest0 = manifest
    /\ dl_pc = "open"
    /\ line_idx = 0
    /\ uploaded_files = {}
    /\ downloaded = << >>
    /\ dl_result = "none"
    /\ total_existing_chunks = 0
    /\ progress_skipped = 0

InitDownload == InitDownloadOf(LineChoices)

uploadVars ==
    << paramVars, completed, chunked, marked, pc, pass, chunks_to_upload, failed_chunks,
       batch_idx, retry_count, sequential_payment_fails, result, verify_outcome,
       verify_failed, poolVars, payVars, fileVars, barVars >>

\* 532-536: create the download directory and open the manifest
DownloadOpen ==
    /\ dl_pc = "open"
    /\ \/ /\ dl_pc' = "done"                    \* create_dir_all(..)? / File::open(..)?
          /\ dl_result' = "IoError"
          /\ UNCHANGED line_idx
       \/ /\ dl_pc' = "read"
          /\ line_idx' = 1
          /\ UNCHANGED dl_result
    /\ UNCHANGED << uploaded_files, downloaded, uploadVars >>

\* 538-556: one turn of `for line in reader.lines()`
ReadLine ==
    /\ dl_pc = "read"
    /\ IF line_idx > Len(manifest)
       THEN /\ dl_pc' = "download"
            /\ UNCHANGED << line_idx, uploaded_files, dl_result >>
       ELSE \/ /\ dl_pc' = "done"                                  \* line? at 539
               /\ dl_result' = "IoError"
               /\ UNCHANGED << line_idx, uploaded_files >>
            \/ LET p == ParseLine(manifest[line_idx]) IN
               CASE p.kind = "entry" ->
                      /\ uploaded_files' = insert(uploaded_files, p.addr, p.name)
                      /\ line_idx' = line_idx + 1
                      /\ UNCHANGED << dl_pc, dl_result >>
                 [] p.kind = "malformed" ->
                      /\ line_idx' = line_idx + 1                  \* 554
                      /\ UNCHANGED << dl_pc, uploaded_files, dl_result >>
                 [] p.kind = "decode_error" ->
                      /\ dl_pc' = "done"                           \* `?` at 546
                      /\ dl_result' = "FromHexError"
                      /\ UNCHANGED << line_idx, uploaded_files >>
                 [] p.kind = "panic" ->
                      /\ dl_pc' = "done"                           \* expect at 549
                      /\ dl_result' = "panic"
                      /\ UNCHANGED << line_idx, uploaded_files >>
    /\ UNCHANGED << downloaded, uploadVars >>

\* 558-568: download_file for each element of the set, each once.  The
\* set's own order among the remaining elements is not modelled: any of them
\* can be next.  download_file returns () whether read_bytes gave Ok or Err
\* (595-618), so its outcome changes nothing here.
DownloadFile ==
    /\ dl_pc = "download"
    /\ LET rest == uploaded_files \ Range(downloaded) IN
       IF rest = {}
       THEN /\ dl_pc' = "done"
            /\ dl_result' = "Ok"                                   \* 570
            /\ UNCHANGED downloaded
       ELSE /\ \E e \in rest : downloaded' = Append(downloaded, e)
            /\ UNCHANGED << dl_pc, dl_result >>
    /\ UNCHANGED << line_idx, uploaded_files, uploadVars >>

NextDownload ==
    \/ DownloadOpen
    \/ ReadLine
    \/ DownloadFile

SpecDownload == InitDownload /\ [][NextDownload]_vars

\* UTF-8 file names (to_str() is Some at 319): two plain ones and one that
\* holds ": ", as in "a: b.txt".
Utf8Names == { << "a.txt" >>, << "b.txt" >>, << "a", Sep, "b.txt" >> }

\* The (root address, file name) of a verified file with a UTF-8 name.
RecordedFiles == { << a, n >> : a \in {1, 2}, n \in Utf8Names }

\* The lines upload_files writes at 322 for such files.
WrittenLines == { FormatLine(e[1], e[2]) : e \in RecordedFiles }

\* download_files is entered with a manifest that runs of upload wrote for
\* files with UTF-8 names.
InitRoundTrip == InitDownloadOf(WrittenLines)

SpecRoundTrip == InitRoundTrip /\ [][NextDownload]_vars


----------------------------------------------------------------------------
\* Properties

\* The kinds of the last n payment calls of the first pass, oldest first.
FirstPassKinds ==
    LET fp == SelectSeq(payLog, LAMBDA e : e.pass = "first")
    IN  [ i \in 1..Len(fp) |-> fp[i].kind ]

Soft(k) == k = "CouldNotVerifyTransfer"

\* Three soft failures in a row somewhere in the sequence of kinds.
ThreeConsecutiveSoft(kinds) ==
    \E i \in 1..(Len(kinds) - 2) :
        Soft(kinds[i]) /\ Soft(kinds[i + 1]) /\ Soft(kinds[i + 2])

\* The sequence of kinds ends with three soft failures.
EndsWithThreeSoft(kinds) ==
    /\ Len(kinds) >= 3
    /\ \A i \in (Len(kinds) - 2)..Len(kinds) : Soft(kinds[i])

\* The lines this run appended to the manifest.
AppendedLines == SubSeq(manifest, Len(manifest) - appended + 1, Len(manifest))

\* The run went past the resume path's early return.
EnteredScheduler == verify_outcome # "empty"

\* C1: the number of Upload Worker tasks spawned and not yet finished never
\* exceeds batch_size.
C1_Backpressure == Cardinality(Running) <= batch_size

\* C2: the in-flight window never holds more than batch_size handles.
C2_WindowBound == Cardinality(uploading_chunks) <= batch_size

\* C2 witness: the window is full when the next batch arrives, so the
\* pre-admission drain has to wait before anything more is pushed.
C2_Witness ==
    /\ pc = "hcb_drain"
    /\ batch_size >= 2
    /\ Cardinality(uploading_chunks) = batch_size

\* C3: no chunk address is included in more than one successful Payment
\* Gateway call of a run.
C3_NoDoublePayment == \A c \in Chunks : paidOK[c] <= 1

\* C4: a run in which three consecutive batches of the first pass failed
\* with CouldNotVerifyTransfer ends with the too-many-sequential-payment-
\* failures error.
C4_SoftFailureCap ==
    (pc = "done" /\ ThreeConsecutiveSoft(FirstPassKinds))
        => result = "TooManySequentialPaymentFails"

\* C5: the run aborts with the too-many-sequential-payment-failures error
\* only when the three most recent payment calls all failed softly, no
\* successful batch between them.
C5_CounterIsConsecutive ==
    result = "TooManySequentialPaymentFails" => EndsWithThreeSoft(FirstPassKinds)

\* C6: the retry counter never exceeds max_retries, and a retry pass starts
\* only from a non-empty Pending set with retries remaining.
C6_RetryBound ==
    [][ /\ retry_count' <= max_retries'
        /\ retry_count' # retry_count =>
             /\ retry_count' = retry_count + 1
             /\ retry_count < max_retries
             /\ Pending # {}
             /\ pass' = "retry" ]_vars

\* C6 witness: every allowed retry pass has been made and chunks are still
\* Pending when the scheduler gives up.
C6_Witness ==
    /\ pc = "manifest"
    /\ max_retries >= 1
    /\ retry_count = max_retries
    /\ Pending # {}

\* C7: a chunk marked Completed in this run is never again in the Pending
\* set, in a batch handed to the Payment Gateway, or dispatched to a worker.
\* (No chunk is marked at the start, and get_chunks() is looked at after
\* every step that changes what the Chunk Manager holds.)
C7_CompletionMonotonic ==
    /\ marked = {}
    /\ [][ /\ << known, completed, marked >>' # << known, completed, marked >> =>
                marked' \cap Range(get_chunks(known', completed')) = {}
           /\ pc' = "hcb_pay" => marked' \cap Range(CurBatch') = {}
           /\ \A c \in marked :
                /\ c \in marked'
                /\ paidOK'[c] = paidOK[c]
                /\ dispatched'[c] = dispatched[c] ]_vars

\* C7 witness: a retry pass is about to pay for a batch after some chunk of
\* the first pass was marked Completed.
C7_Witness ==
    /\ pass = "retry"
    /\ pc = "hcb_pay"
    /\ marked # {}

\* C8: in every pass a worker is spawned only for a chunk of the batch whose
\* payment call has just returned Ok, and never for a chunk of a batch whose
\* payment failed in that pass.
C8_PayBeforeDispatch ==
    /\ pass_spawned = {}
    /\ [][ /\ pass_spawned' \subseteq pass_paid'
           /\ pass_spawned' \cap pass_failed' = {}
           /\ next_id' > next_id =>
                /\ pc = "hcb_pay"
                /\ payLog'[Len(payLog')].kind = "ok"
                /\ \A id \in DOMAIN workers' \ DOMAIN workers :
                       workers'[id].addr \in Range(CurBatch) ]_vars

\* C8 witness: in one pass a batch's payment failed and workers were spawned
\* for another batch.
C8_Witness == pass_failed # {} /\ pass_spawned # {}

\* C9: when a run that entered the scheduler returns success, every verified
\* file has a line among those the run appended, and the manifest was
\* flushed.
C9_ManifestDurability ==
    (pc = "done" /\ result = "Ok" /\ EnteredScheduler) =>
        /\ flushed
        /\ \A f \in Range(verified_files(known, completed)) :
               \E i \in 1..Len(AppendedLines) : AppendedLines[i] = ManifestLine(f)

\* C9 witness: a successful run wrote the lines of two verified files, one
\* of them with a name that is not UTF-8.
C9_Witness ==
    /\ pc = "done"
    /\ result = "Ok"
    /\ verify_outcome = "not_run"
    /\ Range(verified_files(known, completed)) = {1, 2}
    /\ appended = 2

\* C10: when the Verifier returns an empty failed subset on resume, the run
\* returns success with no Payment Gateway call and no worker spawned.
C10_VerifierContract ==
    verify_outcome = "empty" =>
        /\ pc = "done"
        /\ result = "Ok"
        /\ payLog = << >>
        /\ next_id = 0

\* C10 witness: a resume of a path with chunks, all verified.
C10_Witness ==
    /\ verify_outcome = "empty"
    /\ known # {}
    /\ result = "Ok"

\* C11: in a run of upload that follows a run which completed every chunk
\* of the same path, and in which the Verifier reports no failed chunk, the
\* manifest stays exactly as the earlier run left it and no network put is
\* made: no upload_chunk task, the only caller of the put (517-519), is
\* ever spawned.
C11_ResumeIdempotence ==
    (run > 1 /\ verify_outcome # "failed") =>
        /\ manifest = manifest0
        /\ next_id = 0
        /\ workers = << >>
        /\ \A c \in Chunks : dispatched[c] = 0

\* C11 witness: the second run of a path with chunks has returned after the
\* Verifier found nothing to re-upload, over a manifest the first run wrote.
C11_Witness ==
    /\ run = 2
    /\ pc = "done"
    /\ result = "Ok"
    /\ verify_outcome = "empty"
    /\ known # {}
    /\ Len(manifest0) >= 2

\* C12: a worker that could not read its chunk's file returns Ok with the
\* chunk's address before it reaches the network put (the outcome
\* "missing"); taking that result marks the chunk Completed and leaves the
\* run going without an error, and a chunk so marked is never Pending or
\* dispatched again.
C12_MissingChunkTolerance ==
    [][ /\ \A id \in uploading_chunks \ uploading_chunks' :
             workers[id].st = "missing" =>
                 /\ workers[id].addr \in completed' \cap marked'
                 /\ result' = result
                 /\ pc' = pc
        /\ \A c \in marked :
             /\ c \in marked'
             /\ c \notin Pending'
             /\ dispatched'[c] = dispatched[c] ]_vars

\* C12 witness: the final drain of a retry pass is about to take the result
\* of a worker that found its chunk's file unreadable, the last chunk still
\* Pending.
C12_Witness ==
    /\ pc = "drain_all"
    /\ pass = "retry"
    /\ \E id \in uploading_chunks :
         /\ workers[id].st = "missing"
         /\ Pending = {workers[id].addr}

\* C13: with a zero wallet balance at the start, the run ends with the
\* wallet-is-empty error straight from the entry: nothing was chunked, and
\* there was no Verifier call, no payment call, no worker and no manifest
\* write.
C13_EmptyWalletPreflight ==
    balance_zero =>
        /\ pc \in {"start", "done"}
        /\ pc = "done" => result = "WalletEmpty"
        /\ ~chunked
        /\ verify_outcome = "not_run"
        /\ payLog = << >>
        /\ next_id = 0
        /\ manifest = manifest0
        /\ appended = 0
        /\ ~flushed

\* C13 witness: a run with an empty wallet over a path with Pending chunks
\* has ended.
C13_Witness ==
    /\ balance_zero
    /\ pc = "done"
    /\ result = "WalletEmpty"
    /\ Pending # {}

\* The chunks of the failed subset that a payment call reported skipped or
\* that were handed to a worker.
Covered == { c \in verify_failed : dispatched[c] > 0 \/ c \in marked }

\* C14 as stated: on a resume in which the Verifier returned the non-empty
\* failed subset F, a run that returns success has dispatched, or was told
\* to skip, every chunk of F.
C14_CoversFailedSubset ==
    (pc = "done" /\ result = "Ok" /\ verify_outcome = "failed") =>
        Covered = verify_failed

\* C14, amended: on such a resume the chunks outside F are marked Completed,
\* no chunk outside F is in a batch paid for or dispatched, and F is
\* covered in full by a run that returns success after a retry pass or
\* without any failed payment call.
C14_VerifierFailureOnResume ==
    verify_outcome = "failed" =>
        /\ verify_failed # {}
        /\ verify_failed \subseteq known
        /\ (known \ verify_failed) \subseteq (completed \cap marked)
        /\ \A c \in Chunks \ verify_failed :
               /\ paidOK[c] = 0
               /\ dispatched[c] = 0
        /\ pc \in {"hcb_drain", "hcb_pay"} => Range(CurBatch) \subseteq verify_failed
        /\ ( /\ pc = "done"
             /\ result = "Ok"
             /\ \/ retry_count >= 1
                \/ \A i \in 1..Len(payLog) : payLog[i].kind = "ok" )
           => Covered = verify_failed

\* C14 witness: a resume with two failed chunks out of three returned
\* success; one of the two was reported skipped, the other was uploaded.
C14_Witness ==
    /\ verify_outcome = "failed"
    /\ pc = "done"
    /\ result = "Ok"
    /\ Cardinality(verify_failed) = 2
    /\ Cardinality(known) = 3
    /\ \E c \in verify_failed : dispatched[c] = 0 /\ c \in marked
    /\ \E c \in verify_failed : dispatched[c] = 1 /\ c \in marked

\* C15: when every payment call and every worker returns, a run of upload
\* ends, and it ends with a fatal error, or with success and nothing
\* Pending, or with success after max_retries retry passes.
C15_Termination ==
    /\ (pc # "done") ~> (pc = "done")
    /\ [](pc = "done" =>
             \/ result \notin {"Ok", "running"}
             \/ result = "Ok" /\ Pending = {}
             \/ result = "Ok" /\ Pending # {} /\ retry_count = max_retries)

\* C15 witness: a run ended with success after its last allowed retry pass,
\* chunks still Pending.
C15_Witness ==
    /\ pc = "done"
    /\ result = "Ok"
    /\ max_retries >= 1
    /\ retry_count = max_retries
    /\ Pending # {}

\* The (xor_name, file_name) pairs of the lines of the manifest that split
\* in two and whose first part is the hex of 32 bytes.
EntryLines == { i \in 1..Len(manifest) : ParseLine(manifest[i]).kind = "entry" }

EntryOf(i) == << ParseLine(manifest[i]).addr, ParseLine(manifest[i]).name >>

\* C16: when download-all has ended, not on an I/O error, download_file was
\* called for every well-formed line of the manifest, whatever the other
\* lines are.
C16_ManifestReadTolerance ==
    (dl_pc = "done" /\ dl_result # "IoError") =>
        \A i \in EntryLines : EntryOf(i) \in Range(downloaded)

\* C17 as stated: download-all calls download_file at most once for an
\* Address, and with the filename of the last line of that Address.
C17_LastWriteWins ==
    (dl_pc = "done" /\ dl_result = "Ok") =>
        \A k \in 1..Len(downloaded) :
            /\ \A m \in 1..Len(downloaded) :
                   downloaded[m][1] = downloaded[k][1] => m = k
            /\ \E i \in EntryLines :
                   /\ EntryOf(i) = downloaded[k]
                   /\ \A j \in EntryLines : EntryOf(j)[1] = downloaded[k][1] => j <= i

\* C17, amended: download-all calls download_file exactly once for every
\* distinct (Address, filename) pair of the manifest, so an Address listed
\* under several filenames is downloaded once under each of them.
C17_OncePerAddressAndName ==
    (dl_pc = "done" /\ dl_result = "Ok") =>
        /\ Range(downloaded) = { EntryOf(i) : i \in EntryLines }
        /\ \A k, m \in 1..Len(downloaded) : downloaded[k] = downloaded[m] => k = m

\* C17 witness: a manifest of three lines for one Address, two of them the
\* same, was downloaded: two calls, one for each filename.
C17_Witness ==
    /\ dl_pc = "done"
    /\ dl_result = "Ok"
    /\ Len(manifest) = 3
    /\ Cardinality(EntryLines) = 3
    /\ \A i \in EntryLines : EntryOf(i)[1] = 1
    /\ Len(downloaded) = 2

\* The pay_for_chunks call of this step answered with this kind of error.
PaymentAnswered(kind) ==
    /\ pc = "hcb_pay"
    /\ Len(payLog') = Len(payLog) + 1
    /\ payLog'[Len(payLog')].kind = kind

\* C18: in the first pass and in every retry pass, a batch whose payment
\* fails with CouldNotVerifyTransfer is skipped, its chunks stay Pending and
\* the scheduler goes on with the next batch, the run not being ended by it.
C18_SoftInEveryPass ==
    [][ PaymentAnswered("CouldNotVerifyTransfer") =>
            /\ pc' = "batch_loop"
            /\ batch_idx' = batch_idx + 1
            /\ result' = "running"
            /\ Range(CurBatch) \subseteq Pending' ]_vars

\* C19: a payment answer of NotEnoughBalance, or of any error other than
\* CouldNotVerifyTransfer, ends the run with an error in that very step,
\* no worker being spawned for the batch; once the run has ended no batch
\* is paid for, no worker is spawned and no retry pass is started.
C19_FatalPaymentErrors ==
    [][ /\ (PaymentAnswered("NotEnoughBalance") \/ PaymentAnswered("Other")) =>
              /\ pc' = "done"
              /\ result' \notin {"Ok", "running"}
              /\ next_id' = next_id
              /\ workers' = workers
              /\ retry_count' = retry_count
              /\ completed' = completed
        /\ pc = "done" =>
              /\ pc' = "done"
              /\ result' = result
              /\ payLog' = payLog
              /\ next_id' = next_id
              /\ retry_count' = retry_count
              /\ pass' = pass ]_vars

\* C19 witness: the first pass ended on a fatal payment answer for its
\* second batch, after workers were spawned for the first batch.
C19_Witness ==
    /\ pc = "done"
    /\ pass = "first"
    /\ batch_idx = 2
    /\ next_id >= 1
    /\ Len(payLog) = 2
    /\ payLog[2].kind \in {"NotEnoughBalance", "Other"}
    /\ result \in {"NotEnoughBalance", "FailedToUploadChunkBatch"}

\* The chunks of this retry pass that had been dispatched before the pass:
\* their worker returned Err, which left them Pending.
FailedBefore ==
    { c \in Range(failed_chunks) :
        dispatched[c] - (IF c \in pass_spawned THEN 1 ELSE 0) >= 1 }

\* C20 as stated: a chunk whose worker returned Err is dispatched again in
\* the retry pass that follows.
C20_DispatchedAgain ==
    (pass = "retry" /\ pc = "retry_check") => FailedBefore \subseteq pass_spawned

\* C20, amended: taking a worker's Err leaves the run going and the chunk
\* Pending; with retries left the next retry pass is made of exactly the
\* Pending chunks; a payment answer of Ok dispatches every chunk of the batch
\* it did not report skipped; and at the end of a retry pass every chunk
\* that had failed before was dispatched again or marked Completed as
\* skipped.  This holds on a fresh run and for the failed subset on resume.
C20_FailedUploadsRetried ==
    [][ /\ \A id \in uploading_chunks \ uploading_chunks' :
             workers[id].st = "err" =>
                 /\ pc' = pc
                 /\ result' = result
                 /\ workers[id].addr \in Pending'
        /\ (pc = "retry_check" /\ Pending # {} /\ retry_count < max_retries) =>
                 /\ pass' = "retry"
                 /\ retry_count' = retry_count + 1
                 /\ Range(failed_chunks') = Pending
        /\ PaymentAnswered("ok") =>
                 \A c \in Range(CurBatch) :
                     \/ c \in marked' /\ dispatched'[c] = dispatched[c]
                     \/ c \notin marked' /\ dispatched'[c] = dispatched[c] + 1
        /\ (pass' = "retry" /\ pc' = "retry_check") =>
                 FailedBefore' \subseteq (pass_spawned' \cup marked') ]_vars

\* C20 witness: on a resume, a chunk of the Verifier's failed subset was
\* dispatched, its worker returned Err, and a retry pass dispatched it again.
C20_Witness ==
    /\ verify_outcome = "failed"
    /\ pass = "retry"
    /\ pc = "retry_check"
    /\ \E c \in verify_failed : dispatched[c] = 2 /\ c \in pass_spawned

\* The tasks spawned by this step.
SpawnedNow == DOMAIN workers' \ DOMAIN workers

\* C21: when pay_for_chunks returns Ok with a skipped set for a batch, in
\* that step every skipped address is marked Completed, the count of
\* existing chunks and the scheduler's progress-bar increments both grow by
\* the size of the skipped set, no worker is spawned for a skipped address,
\* and exactly one worker is spawned for each other address of the batch.
C21_SkippedChunks ==
    [][ PaymentAnswered("ok") =>
          LET skipped == payLog'[Len(payLog')].skipped IN
          /\ skipped \subseteq completed' \cap marked'
          /\ total_existing_chunks' = total_existing_chunks + Cardinality(skipped)
          /\ progress_skipped' = progress_skipped + Cardinality(skipped)
          /\ \A c \in skipped : dispatched'[c] = dispatched[c]
          /\ { workers'[id].addr : id \in SpawnedNow } = Range(CurBatch) \ skipped
          /\ Cardinality(SpawnedNow) = Cardinality(Range(CurBatch) \ skipped)
          /\ \A id \in SpawnedNow : workers'[id].st = "running" ]_vars

\* C21 witness: the payment of a batch of two reported one chunk skipped;
\* the other chunk's task has been spawned and waits to be pushed.
C21_Witness ==
    /\ pc = "push_drain"
    /\ Len(CurBatch) = 2
    /\ payLog # << >>
    /\ Cardinality(payLog[Len(payLog)].skipped) = 1
    /\ Len(upload_tasks) = 1
    /\ workers[upload_tasks[1]].addr \notin payLog[Len(payLog)].skipped
    /\ total_existing_chunks >= 1

\* C22: the Pending set is read for the retry decision (285, 303) and
\* verified_files() for the manifest (318) only after the drain that ends
\* the pass: the window is empty and no spawned task's handle is left, each
\* having been awaited and its result applied; the retry list is the Pending
\* set of that moment; and awaiting a task that panicked or was cancelled
\* ends the run with an error there and then, nothing being marked.
C22_DrainBeforeDeciding ==
    /\ pc = "start"
    /\ [][ /\ pc' \in {"retry_check", "manifest"} =>
                /\ uploading_chunks' = {}
                /\ upload_tasks' = << >>
                /\ DOMAIN workers' = {}
           /\ (pc # "retry_check" /\ pc' = "retry_check") =>
                /\ pc = "drain_all"
                /\ batch_idx > NumBatches(CurChunks, batch_size)
           /\ pc = "retry_check" => Range(failed_chunks') = Pending
           /\ manifest' # manifest =>
                /\ pc = "manifest"
                /\ DOMAIN workers = {}
           /\ \A id \in uploading_chunks \ uploading_chunks' :
                workers[id].st = "panic" =>
                    /\ pc' = "done"
                    /\ result' = "JoinError"
                    /\ completed' = completed ]_vars

\* C22 witness: a retry pass that spawned tasks has been drained, one of its
\* tasks having returned Err, and the Pending set is about to be read.
C22_Witness ==
    /\ pc = "retry_check"
    /\ pass = "retry"
    /\ pass_spawned # {}
    /\ pass_spawned \cap Pending # {}
    /\ uploading_chunks = {}

\* The files of the path that have a Pending chunk.
FilesWithPending == { FileOf(c) : c \in Pending }

\* C23: when the retry decision finds chunks still Pending and max_retries
\* passes made, the run goes on to the manifest without an error; what it
\* returns is success unless the manifest's own open, write or flush fails;
\* and every line it appends is the line of a file whose chunks are all
\* Completed, none being the line of a file with a Pending chunk.
C23_ExhaustedRetriesNotFatal ==
    [][ /\ (pc = "retry_check" /\ Pending # {} /\ retry_count = max_retries) =>
              /\ pc' = "manifest"
              /\ result' = "running"
              /\ retry_count' = retry_count
              /\ Pending' = Pending
        /\ pc = "manifest" =>
              /\ pc' = "done"
              /\ result' \in {"Ok", "ManifestIOError"}
              /\ flushed' <=> result' = "Ok"
              /\ Pending' = Pending
              /\ manifest' = manifest \o AppendedLines'
              /\ \A i \in 1..Len(AppendedLines') :
                     \E f \in { FileOf(c) : c \in known } \ FilesWithPending :
                         /\ FileChunks(known, f) \subseteq completed
                         /\ AppendedLines'[i] = ManifestLine(f)
              /\ \A f \in FilesWithPending : \A i \in 1..Len(AppendedLines') :
                     AppendedLines'[i] # ManifestLine(f) ]_vars

\* C23 witness: a run returned success after its one allowed retry pass;
\* file 2 still has a Pending chunk, and the one line appended is file 1's.
C23_Witness ==
    /\ pc = "done"
    /\ result = "Ok"
    /\ max_retries = 1
    /\ retry_count = 1
    /\ FilesWithPending = {2}
    /\ appended = 1
    /\ AppendedLines = << ManifestLine(1) >>
    /\ \E c \in Pending : dispatched[c] = 2

\* C24: no chunk address ever has more than one spawned and unfinished
\* worker; the list of a pass names no address twice, and no address is
\* paid for or dispatched more than once in a pass; and a retry pass starts
\* with no task of an earlier pass left.
C24_NoConcurrentDuplicate ==
    /\ \A i, j \in Running : workers[i].addr = workers[j].addr => i = j
    /\ \A i, j \in DOMAIN CurChunks : CurChunks[i] = CurChunks[j] => i = j
    /\ \A c \in Chunks :
           /\ dispatched[c] <= retry_count + 1
           /\ paidOK[c] <= retry_count + 1
    /\ (pass = "retry" /\ batch_idx = 1 /\ pc \in {"batch_loop", "hcb_drain", "hcb_pay"})
           => DOMAIN workers = {}

\* C24 witness: in a retry pass two workers are running at once, one of
\* them for a chunk that a worker of the first pass had already been
\* spawned for.
C24_Witness ==
    /\ pass = "retry"
    /\ Cardinality(Running) = 2
    /\ \E id \in Running : dispatched[workers[id].addr] = 2

\* What a run that did not reach the manifest writer can end with: the
\* empty wallet, a failed chunking or verification, the payment errors of
\* either pass, the cost overflow and a panicked or cancelled worker task.
FatalBeforeManifest ==
    { "WalletEmpty", "ChunkPathError", "VerifyError", "NotEnoughBalance",
      "TooManySequentialPaymentFails", "FailedToUploadChunkBatch",
      "CouldNotVerifyTransfer", "Other", "CostOverflow", "JoinError" }

\* The files every chunk of which is Completed, at least one of them marked
\* in this run.
CompletedInThisRun ==
    { f \in Range(verified_files(known, completed)) : FileChunks(known, f) \cap marked # {} }

\* C25: a run that has ended with any error other than the manifest's own
\* I/O error has left the manifest as it was when the run started: nothing
\* appended, nothing flushed.
C25_ManifestUnchangedOnAbort ==
    /\ result \in {"running", "Ok", "ManifestIOError"} \cup FatalBeforeManifest
    /\ (pc = "done" /\ result \in FatalBeforeManifest) =>
          /\ manifest = manifest0
          /\ appended = 0
          /\ ~flushed

\* C25 witness: a run ended on a panicked worker task after another file
\* had all its chunks Completed in this run; that file has no line.
C25_Witness ==
    /\ pc = "done"
    /\ result = "JoinError"
    /\ \E f \in CompletedInThisRun :
          \A i \in 1..Len(manifest) : manifest[i] # ManifestLine(f)

\* The (address, file name) the writer recorded in line i of the manifest.
RecordedAt(i) ==
    CHOOSE e \in RecordedFiles : FormatLine(e[1], e[2]) = manifest[i]

\* C26: every line the writer appended for a file with a UTF-8 name, names
\* holding ": " included, is read back by download-all as the recorded
\* (address, file name), and when download-all has returned Ok the file was
\* downloaded under that name.
C26_ManifestRoundTrip ==
    \A i \in 1..Len(manifest) :
        /\ ParseLine(manifest[i]).kind = "entry"
        /\ EntryOf(i) = RecordedAt(i)
        /\ (dl_pc = "done" /\ dl_result = "Ok") => RecordedAt(i) \in Range(downloaded)

\* C26 witness: download-all returned Ok over a manifest of one line, written
\* for a file named "a: b.txt", and downloaded nothing.
C26_Witness ==
    /\ dl_pc = "done"
    /\ dl_result = "Ok"
    /\ manifest = << FormatLine(1, << "a", Sep, "b.txt" >>) >>
    /\ downloaded = << >>

====
